---- MODULE Spec2Model ----
(***************************************************************************)
(* Re-authentication coordinator of src/src/libs/Authentication.ts         *)
(* (Authenticate, reauthenticate) together with the collaborators it       *)
(* drives: NetworkStore (isAuthenticating flag, local authToken,           *)
(* credentials), the Onyx session written by updateSessionAuthTokens, the  *)
(* command transport behind Network.post, the sign-in redirector, and the  *)
(* request gate that holds other commands while the flag is set.           *)
(*                                                                         *)
(* JavaScript runs each synchronous function and each promise callback to  *)
(* completion.  The .then() callback of reauthenticate is modelled one     *)
(* statement at a time (program counter "L67", "L72", ... named after the  *)
(* source lines); while a callback is between two of its statements no     *)
(* other action is enabled (see Running), so the intermediate states are   *)
(* visible to invariants but nothing can interleave with the callback.     *)
(***************************************************************************)
EXTENDS Integers, FiniteSets, Sequences, TLC

\* ---- bounds -----------------------------------------------------------
\* number of calls to reauthenticate() made during a run
NumCalls == 2
\* number of other API commands dispatched through the request gate
NumRequests == 2

Calls == 1..NumCalls
Requests == 1..NumRequests
NoCall == 0

\* ---- values -----------------------------------------------------------
Undefined == "undefined"
Null == "null"

\* CONST.JSON_CODE.UNABLE_TO_RETRY, the sentinel tested at line 65
UNABLE_TO_RETRY == 0 - 1
\* the success code tested at line 76
SUCCESS == 200
\* jsonCode values the transport may answer Authenticate with
JsonCodes == {SUCCESS, UNABLE_TO_RETRY, 407}

\* the token of the expired session, present before any cycle
StaleToken == "tok0"
\* authToken values an Authenticate response may carry
FreshTokens == {"tok1", "tok2"}
\* the encrypted form the backend sends along with an authToken
EncryptedFor(token) ==
    CASE token = "tok1" -> "enc1"
      [] token = "tok2" -> "enc2"
      [] OTHER -> Undefined

\* Response (types/onyx/Response): jsonCode, authToken?, encryptedAuthToken?
\* (both tokens present or both absent, with any jsonCode)
Responses ==
    {[jsonCode |-> j, authToken |-> t, encryptedAuthToken |-> EncryptedFor(t)] :
        j \in JsonCodes, t \in FreshTokens \cup {Undefined}}

NoResponse == [jsonCode |-> 0, authToken |-> Undefined, encryptedAuthToken |-> Undefined]

\* NetworkStore credentials: null, or an object whose fields may be missing
CredentialValues ==
    [isNull : {FALSE},
     autoGeneratedLogin : {"login", Undefined},
     autoGeneratedPassword : {"password", Undefined}]
    \cup {[isNull |-> TRUE, autoGeneratedLogin |-> Undefined, autoGeneratedPassword |-> Undefined]}

VARIABLES
    isAuthenticating,   \* NetworkStore.isAuthenticating()
    authToken,          \* NetworkStore local authToken
    session,            \* Onyx session written by updateSessionAuthTokens
    credentials,        \* NetworkStore.getCredentials()
    call,               \* one record per call of reauthenticate()
    posted,             \* commands handed to the transport by Network.post
    redirects,          \* arguments of redirectToSignIn, in invocation order
    req                 \* one record per command dispatched through the gate

vars == <<isAuthenticating, authToken, session, credentials, call, posted, redirects, req>>

\* ---- pure helpers -----------------------------------------------------
\* requireParameters(parameterNames, parameters, commandName): TRUE when every
\* named parameter is present, FALSE when it throws
requireParameters(parameterNames, parameters) ==
    \A n \in parameterNames : parameters[n] \notin {Undefined, Null}

\* the names Authenticate requires (line 26)
RequiredParameters == {"partnerName", "partnerPassword", "partnerUserID", "partnerUserSecret"}

\* the object reauthenticate passes to Authenticate (lines 57-63);
\* credentials?.x is undefined when credentials is null
ReauthenticateParameters(creds) ==
    [useExpensifyLogin |-> "false",
     partnerName |-> "PARTNER_NAME",
     partnerPassword |-> "PARTNER_PASSWORD",
     partnerUserID |-> IF creds.isNull THEN Undefined ELSE creds.autoGeneratedLogin,
     partnerUserSecret |-> IF creds.isNull THEN Undefined ELSE creds.autoGeneratedPassword,
     twoFactorAuthCode |-> Undefined,
     authToken |-> Undefined,
     email |-> Undefined]

\* parameter objects other callers may pass to the exported Authenticate:
\* each required parameter present or missing
ParameterValues ==
    [useExpensifyLogin : {"false"},
     partnerName : {"PARTNER_NAME", Undefined},
     partnerPassword : {"PARTNER_PASSWORD", Undefined},
     partnerUserID : {"login", Undefined},
     partnerUserSecret : {"password", Undefined},
     twoFactorAuthCode : {Undefined},
     authToken : {Undefined},
     email : {Undefined}]

NoParameters ==
    [useExpensifyLogin |-> Undefined, partnerName |-> Undefined,
     partnerPassword |-> Undefined, partnerUserID |-> Undefined,
     partnerUserSecret |-> Undefined, twoFactorAuthCode |-> Undefined,
     authToken |-> Undefined, email |-> Undefined]

\* the Authenticate command with shouldRetry left at the transport's default
AuthenticateCommand_Retried(c, parameters, flag) ==
    [commandName |-> "Authenticate",
     id |-> c,
     partnerName |-> parameters.partnerName,
     partnerPassword |-> parameters.partnerPassword,
     partnerUserID |-> parameters.partnerUserID,
     partnerUserSecret |-> parameters.partnerUserSecret,
     authToken |-> parameters.authToken,
     shouldRetry |-> TRUE,
     forceNetworkRequest |-> TRUE,
     flagWhenSent |-> flag]

\* the command Authenticate hands to Network.post (lines 28-46); flag is
\* isAuthenticating at the moment of the post
AuthenticateCommand(c, parameters, flag) ==
    [commandName |-> "Authenticate",
     id |-> c,
     partnerName |-> parameters.partnerName,
     partnerPassword |-> parameters.partnerPassword,
     partnerUserID |-> parameters.partnerUserID,
     partnerUserSecret |-> parameters.partnerUserSecret,
     authToken |-> parameters.authToken,
     shouldRetry |-> FALSE,
     forceNetworkRequest |-> TRUE,
     flagWhenSent |-> flag]

\* an ordinary command sent by the gate with the locally stored token
GateCommand(r, token, flag) ==
    [commandName |-> "Command",
     id |-> r,
     partnerName |-> Undefined,
     partnerPassword |-> Undefined,
     partnerUserID |-> Undefined,
     partnerUserSecret |-> Undefined,
     authToken |-> token,
     shouldRetry |-> TRUE,
     forceNetworkRequest |-> FALSE,
     flagWhenSent |-> flag]

\* ErrorUtils.getAuthenticateErrorMessage(response): a message per status code
getAuthenticateErrorMessage(response) == <<"authenticateError", response.jsonCode>>

NoMessage == <<"none", 0>>

\* x ?? d with the default dropped
NullishCoalesce_NoDefault(x, d) == x

\* x ?? d
NullishCoalesce(x, d) == IF x \in {Undefined, Null} THEN d ELSE x

\* Branch without the unable-to-retry test of line 65
Branch_NoSentinelTest(response) ==
    IF response.jsonCode # SUCCESS THEN "L77" ELSE "L88"

\* Branch without the jsonCode !== 200 test of line 76
Branch_NoSuccessTest(response) ==
    IF response.jsonCode = UNABLE_TO_RETRY THEN "L67" ELSE "L88"

\* Branch deciding success by the presence of an authToken
Branch_TokenDecides(response) ==
    IF response.jsonCode = UNABLE_TO_RETRY THEN "L67"
    ELSE IF response.authToken = Undefined THEN "L77"
    ELSE "L88"

\* which statement the .then() callback reaches first for a response
\* (the two tests at lines 65 and 76)
Branch(response) ==
    IF response.jsonCode = UNABLE_TO_RETRY THEN "L67"
    ELSE IF response.jsonCode # SUCCESS THEN "L77"
    ELSE "L88"

\* ---- state ------------------------------------------------------------
\* program counters inside the .then() callback of reauthenticate
HandlerPcs == {"L67", "L72", "L77", "L83", "L84", "L88", "L93", "L96", "L97"}

\* a callback is between two of its statements: nothing else may run
Running == \E c \in Calls : call[c].pc \in HandlerPcs

\* calls whose Authenticate command is sent and whose response is not yet processed
Outstanding == {c \in Calls : call[c].pc = "awaiting"}

\* response and errorMessage are the locals of the .then() callback (they are
\* reset when it ends); branch remembers which statement it reached first
\* parameters: the object Authenticate was called with; posts: how often it
\* called Network.post; sessionWrites: how often the cycle wrote the Onyx session
IdleCall ==
    [pc |-> "idle", response |-> NoResponse, errorMessage |-> NoMessage,
     branch |-> "none", settled |-> "none", error |-> "none", overlapped |-> {},
     parameters |-> NoParameters, posts |-> 0, sessionWrites |-> 0]

\* sends: how often the command was handed to the transport
NewRequest ==
    [st |-> "new", queuedToken |-> Undefined, sentToken |-> Undefined,
     releasedBy |-> NoCall, error |-> "none", sends |-> 0]

Init ==
    /\ isAuthenticating = FALSE
    /\ authToken = StaleToken
    /\ session = [authToken |-> StaleToken, encryptedAuthToken |-> Undefined]
    /\ credentials \in CredentialValues
    /\ call = [c \in Calls |-> IdleCall]
    /\ posted = {}
    /\ redirects = <<>>
    /\ req = [r \in Requests |-> NewRequest]

\* ---- request gate -----------------------------------------------------
\* the held requests after the promise of call c settled: replayed with the
\* locally stored token when it resolved, abandoned with its error when it rejected
ReleaseHeld(c, result, err) ==
    [r \in Requests |->
        IF req[r].st # "held" THEN req[r]
        ELSE IF result = "resolved"
             THEN [req[r] EXCEPT !.st = "sent", !.sentToken = authToken, !.releasedBy = c,
                                 !.sends = @ + 1]
             ELSE [req[r] EXCEPT !.st = "failed", !.error = err, !.releasedBy = c]]

\* the commands the replay of the held requests hands to the transport
ReplayedCommands(result) ==
    IF result = "resolved"
    THEN {GateCommand(r, authToken, isAuthenticating) : r \in {q \in Requests : req[q].st = "held"}}
    ELSE {}

\* dispatch(command, params): forwarded when the flag is clear, held otherwise
\* (requests are numbered in the order they are dispatched)
Dispatch(r) ==
    /\ ~Running
    /\ req[r].st = "new"
    /\ \A q \in Requests : q < r => req[q].st # "new"
    /\ IF isAuthenticating
       THEN /\ req' = [req EXCEPT ![r].st = "held", ![r].queuedToken = authToken]
            /\ UNCHANGED posted
       ELSE /\ req' = [req EXCEPT ![r].st = "sent", ![r].sentToken = authToken,
                                   ![r].sends = @ + 1]
            /\ posted' = posted \cup {GateCommand(r, authToken, isAuthenticating)}
    /\ UNCHANGED <<isAuthenticating, authToken, session, credentials, call, redirects>>

\* the promise returned by reauthenticate settles: record it, run the continuations
Settle(c, result, err) ==
    /\ call' = [call EXCEPT ![c].pc = "done", ![c].settled = result, ![c].error = err,
                            ![c].response = NoResponse, ![c].errorMessage = NoMessage]
    /\ req' = ReleaseHeld(c, result, err)
    /\ posted' = posted \cup ReplayedCommands(result)

\* ---- Authenticate -----------------------------------------------------
\* Authenticate without the requireParameters call of line 26
Authenticate_NoRequire(c, parameters, flag) ==
    /\ posted' = posted \cup {AuthenticateCommand(c, parameters, flag)}
    /\ call' = [call EXCEPT ![c].pc = "awaiting", ![c].overlapped = Outstanding,
                            ![c].parameters = parameters, ![c].posts = @ + 1]

\* Authenticate(parameters), lines 23-47, as call number c: requireParameters
\* throws synchronously, otherwise the command is handed to Network.post;
\* flag is isAuthenticating at that moment
Authenticate(c, parameters, flag) ==
    IF requireParameters(RequiredParameters, parameters)
    THEN /\ posted' = posted \cup {AuthenticateCommand(c, parameters, flag)}
         /\ call' = [call EXCEPT ![c].pc = "awaiting", ![c].overlapped = Outstanding,
                                 ![c].parameters = parameters, ![c].posts = @ + 1]
    ELSE /\ call' = [call EXCEPT ![c].pc = "threw", ![c].settled = "threw",
                                 ![c].error = "missingParameter",
                                 ![c].overlapped = Outstanding,
                                 ![c].parameters = parameters]
         /\ UNCHANGED posted

\* another caller (not reauthenticate) calls the exported Authenticate with
\* its own parameters; the flag is not touched
AuthenticateDirect(c) ==
    /\ call[c].pc = "idle"
    /\ \A d \in Calls : d < c => call[d].pc # "idle"
    /\ \E parameters \in ParameterValues : Authenticate(c, parameters, isAuthenticating)
    /\ UNCHANGED <<isAuthenticating, authToken, session, credentials, redirects, req>>

\* ---- reauthenticate ---------------------------------------------------
\* the synchronous part of reauthenticate(command): lines 53-64
\* (calls are numbered in the order they are made)
Reauthenticate(c) ==
    /\ ~Running
    /\ call[c].pc = "idle"
    /\ \A d \in Calls : d < c => call[d].pc # "idle"
    /\ isAuthenticating' = TRUE
    /\ Authenticate(c, ReauthenticateParameters(credentials), TRUE)
    /\ UNCHANGED <<authToken, session, credentials, redirects, req>>

\* Network.post resolves with a response; the .then() callback starts (lines 64-76)
Then(c) ==
    /\ ~Running
    /\ call[c].pc = "awaiting"
    /\ \E response \in Responses :
         call' = [call EXCEPT ![c].response = response, ![c].pc = Branch(response),
                              ![c].branch = Branch(response)]
    /\ UNCHANGED <<isAuthenticating, authToken, session, credentials, posted, redirects, req>>

\* a rejection handler that clears the flag
TransportRejects_ClearsFlag(c) ==
    /\ ~Running
    /\ call[c].pc = "awaiting"
    /\ isAuthenticating' = FALSE
    /\ Settle(c, "rejected", "transport")
    /\ UNCHANGED <<authToken, session, credentials, redirects>>

\* Network.post rejects: the .then() callback is skipped and the promise rejects
TransportRejects(c) ==
    /\ ~Running
    /\ call[c].pc = "awaiting"
    /\ Settle(c, "rejected", "transport")
    /\ UNCHANGED <<isAuthenticating, authToken, session, credentials, redirects>>

\* line 67 without the call that clears the flag
RetryableClearFlag_Skipped(c) ==
    /\ call[c].pc = "L67"
    /\ call' = [call EXCEPT ![c].pc = "L72"]
    /\ UNCHANGED <<isAuthenticating, authToken, session, credentials, posted, redirects, req>>

\* line 67: NetworkStore.setIsAuthenticating(false)
RetryableClearFlag(c) ==
    /\ call[c].pc = "L67"
    /\ isAuthenticating' = FALSE
    /\ call' = [call EXCEPT ![c].pc = "L72"]
    /\ UNCHANGED <<authToken, session, credentials, posted, redirects, req>>

\* line 72 returning instead of throwing
RetryableThrow_Returns(c) ==
    /\ call[c].pc = "L72"
    /\ Settle(c, "resolved", "none")
    /\ UNCHANGED <<isAuthenticating, authToken, session, credentials, redirects>>

\* line 72: throw new Error('Unable to retry Authenticate request')
RetryableThrow(c) ==
    /\ call[c].pc = "L72"
    /\ Settle(c, "rejected", "unableToRetry")
    /\ UNCHANGED <<isAuthenticating, authToken, session, credentials, redirects>>

\* lines 77-78: errorMessage = getAuthenticateErrorMessage(response); setIsAuthenticating(false)
TerminalClearFlag(c) ==
    /\ call[c].pc = "L77"
    /\ isAuthenticating' = FALSE
    /\ call' = [call EXCEPT ![c].pc = "L83",
                            ![c].errorMessage = getAuthenticateErrorMessage(call[c].response)]
    /\ UNCHANGED <<authToken, session, credentials, posted, redirects, req>>

\* line 83 without the call of redirectToSignIn
TerminalRedirect_Skipped(c) ==
    /\ call[c].pc = "L83"
    /\ call' = [call EXCEPT ![c].pc = "L84"]
    /\ UNCHANGED <<isAuthenticating, authToken, session, credentials, posted, redirects, req>>

\* line 83: redirectToSignIn(errorMessage)
TerminalRedirect(c) ==
    /\ call[c].pc = "L83"
    /\ redirects' = Append(redirects, [by |-> c, message |-> call[c].errorMessage])
    /\ call' = [call EXCEPT ![c].pc = "L84"]
    /\ UNCHANGED <<isAuthenticating, authToken, session, credentials, posted, req>>

\* line 84: return
TerminalReturn(c) ==
    /\ call[c].pc = "L84"
    /\ Settle(c, "resolved", "none")
    /\ UNCHANGED <<isAuthenticating, authToken, session, credentials, redirects>>

\* line 88: updateSessionAuthTokens(response.authToken, response.encryptedAuthToken)
SuccessUpdateSession(c) ==
    /\ call[c].pc = "L88"
    /\ session' = [authToken |-> call[c].response.authToken,
                   encryptedAuthToken |-> call[c].response.encryptedAuthToken]
    /\ call' = [call EXCEPT ![c].pc = "L93", ![c].sessionWrites = @ + 1]
    /\ UNCHANGED <<isAuthenticating, authToken, credentials, posted, redirects, req>>

\* line 93 without the write of the local token (only Onyx is updated)
SuccessSetAuthToken_Skipped(c) ==
    /\ call[c].pc = "L93"
    /\ call' = [call EXCEPT ![c].pc = "L96"]
    /\ UNCHANGED <<isAuthenticating, authToken, session, credentials, posted, redirects, req>>

\* line 93: NetworkStore.setAuthToken(response.authToken ?? null)
SuccessSetAuthToken(c) ==
    /\ call[c].pc = "L93"
    /\ authToken' = NullishCoalesce(call[c].response.authToken, Null)
    /\ call' = [call EXCEPT ![c].pc = "L96"]
    /\ UNCHANGED <<isAuthenticating, session, credentials, posted, redirects, req>>

\* line 96 without the call that clears the flag
SuccessClearFlag_Skipped(c) ==
    /\ call[c].pc = "L96"
    /\ call' = [call EXCEPT ![c].pc = "L97"]
    /\ UNCHANGED <<isAuthenticating, authToken, session, credentials, posted, redirects, req>>

\* line 96: NetworkStore.setIsAuthenticating(false)
SuccessClearFlag(c) ==
    /\ call[c].pc = "L96"
    /\ isAuthenticating' = FALSE
    /\ call' = [call EXCEPT ![c].pc = "L97"]
    /\ UNCHANGED <<authToken, session, credentials, posted, redirects, req>>

\* line 97 with the callback ending in a throw
SuccessReturn_Throws(c) ==
    /\ call[c].pc = "L97"
    /\ Settle(c, "rejected", "unableToRetry")
    /\ UNCHANGED <<isAuthenticating, authToken, session, credentials, redirects>>

\* line 97: the callback ends and the promise resolves
SuccessReturn(c) ==
    /\ call[c].pc = "L97"
    /\ Settle(c, "resolved", "none")
    /\ UNCHANGED <<isAuthenticating, authToken, session, credentials, redirects>>

Next ==
    \/ \E c \in Calls : Reauthenticate(c)
    \/ \E c \in Calls : Then(c)
    \/ \E c \in Calls : TransportRejects(c)
    \/ \E c \in Calls : RetryableClearFlag(c)
    \/ \E c \in Calls : RetryableThrow(c)
    \/ \E c \in Calls : TerminalClearFlag(c)
    \/ \E c \in Calls : TerminalRedirect(c)
    \/ \E c \in Calls : TerminalReturn(c)
    \/ \E c \in Calls : SuccessUpdateSession(c)
    \/ \E c \in Calls : SuccessSetAuthToken(c)
    \/ \E c \in Calls : SuccessClearFlag(c)
    \/ \E c \in Calls : SuccessReturn(c)
    \/ \E r \in Requests : Dispatch(r)

Spec == Init /\ [][Next]_vars

\* the transport answers every Authenticate command with a response (it never
\* rejects), and a callback that has started runs to its end
NextResolving ==
    \/ \E c \in Calls : Reauthenticate(c)
    \/ \E c \in Calls : Then(c)
    \/ \E c \in Calls : RetryableClearFlag(c)
    \/ \E c \in Calls : RetryableThrow(c)
    \/ \E c \in Calls : TerminalClearFlag(c)
    \/ \E c \in Calls : TerminalRedirect(c)
    \/ \E c \in Calls : TerminalReturn(c)
    \/ \E c \in Calls : SuccessUpdateSession(c)
    \/ \E c \in Calls : SuccessSetAuthToken(c)
    \/ \E c \in Calls : SuccessClearFlag(c)
    \/ \E c \in Calls : SuccessReturn(c)
    \/ \E r \in Requests : Dispatch(r)

\* a step of the transport's answer or of a callback of call c
Progress(c) ==
    \/ Then(c)
    \/ RetryableClearFlag(c) \/ RetryableThrow(c)
    \/ TerminalClearFlag(c) \/ TerminalRedirect(c) \/ TerminalReturn(c)
    \/ SuccessUpdateSession(c) \/ SuccessSetAuthToken(c)
    \/ SuccessClearFlag(c) \/ SuccessReturn(c)

FairSpec ==
    /\ Init
    /\ [][NextResolving]_vars
    /\ \A c \in Calls : WF_vars(Progress(c))

\* the exported Authenticate on its own, called with arbitrary parameters
NextAuthenticate == \E c \in Calls : AuthenticateDirect(c)

SpecAuthenticate == Init /\ [][NextAuthenticate]_vars

TypeOK ==
    /\ isAuthenticating \in BOOLEAN
    /\ authToken \in FreshTokens \cup {StaleToken, Null}
    /\ credentials \in CredentialValues
    /\ \A c \in Calls : call[c].pc \in HandlerPcs \cup {"idle", "awaiting", "threw", "done"}
    /\ \A r \in Requests : req[r].st \in {"new", "held", "sent", "failed"}

\* ---- properties -------------------------------------------------------
\* the outcome a caller of reauthenticate observes for call c
Outcome(c) ==
    IF call[c].pc = "threw" THEN "precondition"
    ELSE IF call[c].pc # "done" THEN "pending"
    ELSE IF call[c].branch = "L88" THEN "success"
    ELSE IF call[c].branch = "L67" THEN "retryable"
    ELSE IF call[c].branch = "L77" THEN "terminal"
    ELSE "transportRejected"

\* the promise of call c settles in this step, out of the .then() callback
SettlesFrom(c, pcs) == call[c].pc \in pcs /\ call'[c].pc = "done"

\* redirectToSignIn was invoked by call c
RedirectedBy(log, c) == \E i \in DOMAIN log : log[i].by = c

\* the Authenticate commands handed to the transport so far
AuthenticateCommandsSent == {m \in posted : m.commandName = "Authenticate"}

\* C1: mutual exclusion: at no reachable state are two Authenticate commands
\* outstanding; a call of reauthenticate that arrives while a cycle is in
\* flight sends no second Authenticate command.
C1_AtMostOneAuthenticateOutstanding == Cardinality(Outstanding) <= 1

\* C2: all callers whose calls overlap the same in-flight cycle observe the
\* same outcome (all success, all retryable or all terminal).
C2_OverlappingCallersSameOutcome ==
    \A c, d \in Calls :
        (/\ c \in call[d].overlapped
         /\ Outcome(c) \in {"success", "retryable", "terminal"}
         /\ Outcome(d) \in {"success", "retryable", "terminal"})
            => Outcome(c) = Outcome(d)

\* C3: replay after refresh: when a cycle that took the success branch settles,
\* the local token already is the token T of its response (it was written
\* before the flag was cleared at line 96), and every request the gate held is
\* handed to the transport in that step carrying T.
C3_ReplayAfterRefresh ==
    [][\A c \in Calls :
          LET T == NullishCoalesce(call[c].response.authToken, Null) IN
          /\ call'[c].pc = "L97" => (authToken' = T /\ ~isAuthenticating')
          /\ (call'[c].pc \in {"L88", "L93", "L96"}) =>
                (\A r \in Requests : req[r].st = "held" => req'[r].st = "held")
          /\ SettlesFrom(c, {"L97"}) =>
                /\ authToken = T
                /\ \A r \in Requests : req[r].st = "held" =>
                      /\ req'[r].st = "sent"
                      /\ req'[r].sentToken = T
                      /\ GateCommand(r, T, FALSE) \in posted'
                      /\ \A m \in posted' : (m.commandName = "Command" /\ m.id = r)
                                                => m.authToken = T]_vars

\* every request was held with the stale token and replayed by a successful
\* cycle with the token "tok2" of its response
C3_Witness ==
    \E c \in Calls :
        /\ Outcome(c) = "success"
        /\ \A r \in Requests :
              /\ req[r].st = "sent"
              /\ req[r].releasedBy = c
              /\ req[r].queuedToken = StaleToken
              /\ req[r].sentToken = "tok2"

\* C4: whichever branch the .then() callback takes (200, unable-to-retry, any
\* other code), isAuthenticating is false when the promise of reauthenticate
\* settles.
C4_FlagClearedOnEveryResponseBranch ==
    [][\A c \in Calls : SettlesFrom(c, {"L72", "L84", "L97"}) => ~isAuthenticating']_vars

\* two cycles settled through different failure branches and the flag is clear
C4_Witness ==
    /\ ~isAuthenticating
    /\ \E c, d \in Calls : Outcome(c) = "retryable" /\ Outcome(d) = "terminal"

\* C5: after a call of reauthenticate that raised the missing-parameter error,
\* isAuthenticating is false.
C5_FlagClearedAfterPreconditionError ==
    \A c \in Calls : Outcome(c) = "precondition" => ~isAuthenticating

\* C6: when the transport rejects the Authenticate send, isAuthenticating is
\* false once the promise of reauthenticate has settled.
C6_FlagClearedAfterTransportRejection ==
    [][\A c \in Calls : SettlesFrom(c, {"awaiting"}) => ~isAuthenticating']_vars

\* C7: a cycle that took the terminal branch completes with a failure result,
\* not the way a successful cycle completes.
C7_TerminalIsAFailureResult ==
    \A c \in Calls : Outcome(c) = "terminal" => call[c].settled = "rejected"

\* C8: a request held during a cycle that ends with the terminal outcome is
\* never sent to the transport; it fails.
C8_HeldAbandonedOnTerminal ==
    \A r \in Requests :
        (req[r].releasedBy # NoCall /\ Outcome(req[r].releasedBy) = "terminal")
            => /\ req[r].st = "failed"
               /\ ~\E m \in posted : m.commandName = "Command" /\ m.id = r

\* C9: when the promise of a cycle whose response had jsonCode 200 and
\* authToken t settles, the local token and the Onyx session hold t,
\* isAuthenticating is false and the cycle has not invoked redirectToSignIn.
C9_SuccessStoresToken ==
    [][\A c \in Calls :
          (SettlesFrom(c, {"L97"}) /\ call[c].response.authToken \in FreshTokens) =>
              /\ call[c].response.jsonCode = SUCCESS
              /\ authToken' = call[c].response.authToken
              /\ session'.authToken = call[c].response.authToken
              /\ session'.encryptedAuthToken = call[c].response.encryptedAuthToken
              /\ ~isAuthenticating'
              /\ call'[c].settled = "resolved"
              /\ ~RedirectedBy(redirects', c)]_vars

\* a successful cycle is over: token "tok1" stored, flag clear, no redirect
C9_Witness ==
    \E c \in Calls :
        /\ Outcome(c) = "success"
        /\ authToken = "tok1"
        /\ session.authToken = "tok1"
        /\ ~isAuthenticating
        /\ redirects = <<>>

\* C10: when the response carries the unable-to-retry sentinel, the caller's
\* promise rejects with the retryable error, isAuthenticating is false,
\* redirectToSignIn is not invoked and the stored session token is unchanged.
C10_RetryableOutcome ==
    [][\A c \in Calls :
          /\ (call[c].pc = "awaiting" /\ call'[c].pc # "awaiting"
                /\ call'[c].response.jsonCode = UNABLE_TO_RETRY)
                => call'[c].pc = "L67"
          /\ call[c].pc \in {"L67", "L72"} =>
                /\ authToken' = authToken
                /\ session' = session
                /\ redirects' = redirects
          /\ SettlesFrom(c, {"L72"}) =>
                /\ call'[c].settled = "rejected"
                /\ call'[c].error = "unableToRetry"
                /\ ~isAuthenticating'
                /\ ~RedirectedBy(redirects', c)]_vars

\* a cycle ended retryable: the stale token is still stored, nothing redirected
C10_Witness ==
    \E c \in Calls :
        /\ Outcome(c) = "retryable"
        /\ call[c].settled = "rejected"
        /\ authToken = StaleToken
        /\ session.authToken = StaleToken
        /\ ~isAuthenticating
        /\ redirects = <<>>

\* the invocations of redirectToSignIn made by call c
RedirectsBy(log, c) == {i \in DOMAIN log : log[i].by = c}

\* calls c and d belong to one episode: one was made while the other's
\* Authenticate command was outstanding
SameEpisode(c, d) == c \in call[d].overlapped \/ d \in call[c].overlapped

\* the commands of request r handed to the transport
CommandsOf(cmds, r) == {m \in cmds : m.commandName = "Command" /\ m.id = r}

\* C11: when the promise of a cycle whose response had a jsonCode that is
\* neither 200 nor the sentinel settles, that cycle has invoked redirectToSignIn
\* exactly once, with getAuthenticateErrorMessage of that response, and
\* isAuthenticating is false.
C11_TerminalOutcome ==
    [][\A c \in Calls :
          /\ (call[c].pc = "awaiting" /\ call'[c].pc # "awaiting" /\ call'[c].pc # "done"
                /\ call'[c].response.jsonCode \notin {SUCCESS, UNABLE_TO_RETRY})
                => call'[c].pc = "L77"
          /\ SettlesFrom(c, {"L84"}) =>
                /\ call[c].response.jsonCode \notin {SUCCESS, UNABLE_TO_RETRY}
                /\ Cardinality(RedirectsBy(redirects', c)) = 1
                /\ \A i \in RedirectsBy(redirects', c) :
                      redirects'[i].message = getAuthenticateErrorMessage(call[c].response)
                /\ ~isAuthenticating']_vars

\* a cycle answered with 407 is over: one redirect with the message for 407
C11_Witness ==
    \E c \in Calls :
        /\ Outcome(c) = "terminal"
        /\ redirects = <<[by |-> c, message |-> getAuthenticateErrorMessage(
                             [jsonCode |-> 407, authToken |-> Undefined,
                              encryptedAuthToken |-> Undefined])]>>
        /\ ~isAuthenticating

\* C12: for one terminal episode redirectToSignIn is invoked at most once, no
\* matter how many callers triggered it, and it is never invoked by a cycle
\* that ends in success or in the retryable failure.
C12_RedirectAtMostOncePerEpisode ==
    /\ \A c \in Calls : Cardinality(RedirectsBy(redirects, c)) <= 1
    /\ \A c \in Calls :
          Outcome(c) \in {"success", "retryable"} => RedirectsBy(redirects, c) = {}
    /\ \A c, d \in Calls :
          (c # d /\ SameEpisode(c, d))
              => ~(RedirectsBy(redirects, c) # {} /\ RedirectsBy(redirects, d) # {})

\* C13: a successful cycle writes the session at most once, and when several
\* callers trigger re-authentication for the same expired session it is
\* written at most once for that episode.
C13_SessionWrittenAtMostOncePerEpisode ==
    /\ \A c \in Calls : call[c].sessionWrites <= 1
    /\ \A c, d \in Calls :
          (c # d /\ SameEpisode(c, d))
              => ~(call[c].sessionWrites > 0 /\ call[d].sessionWrites > 0)

\* C14: a command dispatched while isAuthenticating is false is handed to the
\* transport in that step; one dispatched while it is true is held and nothing
\* is sent; and no gated command is ever handed to the transport in a state
\* where isAuthenticating is true.
C14_GateInvariant ==
    [][/\ \A r \in Requests :
            (req[r].st = "new" /\ req'[r].st # "new") =>
                IF isAuthenticating
                THEN req'[r].st = "held" /\ posted' = posted
                ELSE /\ req'[r].st = "sent"
                     /\ CommandsOf(posted', r) = {GateCommand(r, authToken, FALSE)}
       /\ \A r \in Requests :
            (req[r].st = "held" /\ isAuthenticating') => req'[r].st \in {"held", "failed"}
       /\ \A m \in posted' : m.commandName = "Command" => ~m.flagWhenSent]_vars

\* one command went straight to the transport, the other was held during a
\* cycle and replayed once the flag was clear
C14_Witness ==
    \E q, r \in Requests :
        /\ req[q].st = "sent" /\ req[q].releasedBy = NoCall
        /\ req[r].st = "sent" /\ req[r].releasedBy # NoCall
        /\ \A m \in posted : m.commandName = "Command" => ~m.flagWhenSent

\* C15: when a cycle ends with the retryable outcome, every request the gate
\* holds fails with the retryable error, nothing is handed to the transport
\* (no command of the request, no further Authenticate).
C15_HeldAbandonedOnRetryable ==
    [][\A c \in Calls :
          SettlesFrom(c, {"L72"}) =>
              /\ posted' = posted
              /\ \A d \in Calls : d # c => call'[d] = call[d]
              /\ \A r \in Requests : req[r].st = "held" =>
                    /\ req'[r].st = "failed"
                    /\ req'[r].error = "unableToRetry"
                    /\ req'[r].error = call'[c].error
                    /\ req'[r].releasedBy = c
                    /\ req'[r].sends = 0]_vars

\* every request was held and then abandoned by a retryable cycle
C15_Witness ==
    \E c \in Calls :
        /\ Outcome(c) = "retryable"
        /\ \A r \in Requests :
              /\ req[r].st = "failed"
              /\ req[r].releasedBy = c
              /\ req[r].error = "unableToRetry"
              /\ CommandsOf(posted, r) = {}

\* C16: every request held when a successful cycle settles is handed to the
\* transport exactly once; no request is ever sent twice; and after the
\* promise of any cycle settles no request is still held.
C16_HeldReplayedExactlyOnce ==
    [][/\ \A r \in Requests :
            /\ req'[r].sends <= 1
            /\ req'[r].st = "sent" <=> req'[r].sends = 1
            /\ req[r].st = "sent" => req'[r] = req[r]
       /\ \A c \in Calls :
            /\ SettlesFrom(c, {"L97"}) =>
                  \A r \in Requests : req[r].st = "held" =>
                      /\ req'[r].st = "sent"
                      /\ req'[r].sends = 1
                      /\ Cardinality(CommandsOf(posted', r)) = 1
            /\ (call[c].pc # "done" /\ call'[c].pc = "done") =>
                  \A r \in Requests : req'[r].st # "held"]_vars

\* two requests were held during a successful cycle and each was sent once
C16_Witness ==
    \E c \in Calls :
        /\ Outcome(c) = "success"
        /\ \A r \in Requests :
              /\ req[r].releasedBy = c
              /\ req[r].sends = 1
              /\ Cardinality(CommandsOf(posted, r)) = 1

\* C17: a call of Authenticate with partnerName, partnerPassword,
\* partnerUserID or partnerUserSecret missing throws the precondition error in
\* the calling step and hands nothing to the transport; with all four present
\* it posts the command.
C17_PreconditionBeforeNetwork ==
    [][\A c \in Calls :
          (call[c].pc = "idle" /\ call'[c].pc # "idle") =>
              IF \E n \in RequiredParameters : call'[c].parameters[n] \in {Undefined, Null}
              THEN /\ call'[c].pc = "threw"
                   /\ call'[c].error = "missingParameter"
                   /\ call'[c].posts = 0
                   /\ posted' = posted
              ELSE /\ call'[c].pc = "awaiting"
                   /\ call'[c].posts = 1]_vars

\* Authenticate was called without partnerName only and threw; nothing was posted
C17_Witness ==
    \E c \in Calls :
        /\ call[c].pc = "threw"
        /\ call[c].parameters.partnerName = Undefined
        /\ call[c].parameters.partnerPassword # Undefined
        /\ call[c].parameters.partnerUserID # Undefined
        /\ call[c].parameters.partnerUserSecret # Undefined
        /\ posted = {}

\* C18: every Authenticate command handed to the transport carries
\* forceNetworkRequest = true and shouldRetry = false; the command of a cycle is
\* posted while isAuthenticating is true; and each cycle posts it once.
C18_AuthenticateBypassesGate ==
    /\ \A m \in AuthenticateCommandsSent :
          m.forceNetworkRequest /\ ~m.shouldRetry /\ m.flagWhenSent
    /\ \A c \in Calls :
          /\ call[c].posts <= 1
          /\ call[c].pc \in {"idle", "threw"} => call[c].posts = 0
          /\ call[c].pc \notin {"idle", "threw"} =>
                /\ call[c].posts = 1
                /\ Cardinality({m \in AuthenticateCommandsSent : m.id = c}) = 1

\* a cycle failed terminally; its Authenticate command was posted once, forced
\* through while the flag was set
C18_Witness ==
    \E c \in Calls :
        /\ Outcome(c) = "terminal"
        /\ call[c].posts = 1
        /\ \E m \in AuthenticateCommandsSent :
              m.id = c /\ m.forceNetworkRequest /\ ~m.shouldRetry /\ m.flagWhenSent

\* C19: in every reachable state, if an Authenticate command issued by
\* reauthenticate is outstanding then isAuthenticating is true.
C19_FlagCoversOutstanding == Outstanding # {} => isAuthenticating

\* C20: the stored session token (local authToken, Onyx session) changes only
\* in a step of the success branch of a callback whose response has jsonCode 200.
C20_SessionWrittenOnlyOnSuccess ==
    [][(authToken' # authToken \/ session' # session) =>
          \E c \in Calls :
              /\ call[c].pc \in {"L88", "L93"}
              /\ call[c].response.jsonCode = SUCCESS
              /\ call[c].branch = "L88"]_vars

\* a success callback has written the Onyx session and not yet the local token
C20_Witness ==
    \E c \in Calls :
        /\ call[c].pc = "L93"
        /\ call[c].response.jsonCode = SUCCESS
        /\ session.authToken = "tok2"
        /\ authToken = StaleToken

\* C21: under the fairness of FairSpec (every Authenticate command is
\* eventually answered with a response), every state in which isAuthenticating
\* is true is eventually followed by one in which it is false, and every held
\* request is eventually sent or failed.
C21_EveryCycleReturnsToIdle ==
    /\ isAuthenticating ~> ~isAuthenticating
    /\ \A r \in Requests : (req[r].st = "held") ~> (req[r].st \in {"sent", "failed"})

\* C22: isAuthenticating goes from true to false only in a step of a .then()
\* callback, which processes an Authenticate response, and a held request
\* leaves the gate only in the step in which the promise of a cycle settles;
\* so while no Authenticate result is processed the flag stays true and the
\* held requests stay held.
C22_NoTimeoutAtThisLayer ==
    [][/\ (isAuthenticating /\ ~isAuthenticating') =>
            \E c \in Calls :
                /\ call[c].pc \in {"L67", "L77", "L96"}
                /\ call[c].response \in Responses
                /\ call'[c].pc # call[c].pc
       /\ \A r \in Requests :
            (req[r].st = "held" /\ req'[r].st # "held") =>
                \E c \in Calls :
                    /\ call[c].pc \in HandlerPcs \cup {"awaiting"}
                    /\ call'[c].pc = "done"
                    /\ req'[r].releasedBy = c]_vars

\* every call is made, one Authenticate is still unanswered, the flag is set
\* and every request is held: only the transport's answer can change this
C22_Witness ==
    /\ isAuthenticating
    /\ Outstanding # {}
    /\ \A c \in Calls : call[c].pc \in {"awaiting", "done"}
    /\ \A r \in Requests : req[r].st = "held"

\* C23: the branch a callback takes is decided by jsonCode alone: when its
\* promise settles, the cycle has written the session iff jsonCode is 200, has
\* rejected with the retryable error iff jsonCode is the sentinel, and has
\* redirected iff jsonCode is any other code; a non-200 response that carries
\* an authToken causes no session write.
C23_OutcomeDecidedByJsonCode ==
    [][\A c \in Calls :
          /\ SettlesFrom(c, HandlerPcs) =>
                LET code == call[c].response.jsonCode IN
                /\ (code = SUCCESS) <=>
                      (call'[c].sessionWrites = 1 /\ call'[c].branch = "L88")
                /\ (code = UNABLE_TO_RETRY) <=>
                      (call'[c].error = "unableToRetry" /\ call'[c].branch = "L67")
                /\ (code \notin {SUCCESS, UNABLE_TO_RETRY}) <=>
                      (RedirectsBy(redirects', c) # {} /\ call'[c].branch = "L77")
                /\ (code = SUCCESS) <=> (call'[c].settled = "resolved"
                                            /\ RedirectsBy(redirects', c) = {})
          /\ (call[c].pc \in HandlerPcs /\ call[c].response.jsonCode # SUCCESS) =>
                /\ authToken' = authToken
                /\ session' = session
                /\ call'[c].sessionWrites = 0]_vars

\* a callback for a 407 response that carries an authToken is about to
\* return: nothing was written
C23_Witness ==
    \E c \in Calls :
        /\ call[c].pc = "L84"
        /\ call[c].response.jsonCode = 407
        /\ call[c].response.authToken = "tok1"
        /\ call[c].sessionWrites = 0
        /\ authToken = StaleToken
        /\ session.authToken = StaleToken

\* C24: when the response has jsonCode 200 and no authToken, the success
\* branch is taken: when the promise settles the local authToken is null,
\* isAuthenticating is false, redirectToSignIn was not invoked, the promise
\* resolves, and the held requests are sent with the null token.
C24_SuccessWithoutToken ==
    [][\A c \in Calls :
          /\ (call[c].pc = "awaiting" /\ call'[c].pc \in HandlerPcs
                /\ call'[c].response.jsonCode = SUCCESS
                /\ call'[c].response.authToken = Undefined)
                => call'[c].pc = "L88"
          /\ (SettlesFrom(c, HandlerPcs)
                /\ call[c].response.jsonCode = SUCCESS
                /\ call[c].response.authToken = Undefined) =>
                /\ authToken' = Null
                /\ ~isAuthenticating'
                /\ RedirectsBy(redirects', c) = {}
                /\ call'[c].settled = "resolved"
                /\ \A r \in Requests : req[r].st = "held" =>
                      /\ req'[r].st = "sent"
                      /\ req'[r].sentToken = Null
                      /\ GateCommand(r, Null, FALSE) \in posted']_vars

\* a successful cycle stored null and released a held request with it
C24_Witness ==
    \E c \in Calls :
        /\ Outcome(c) = "success"
        /\ authToken = Null
        /\ ~isAuthenticating
        /\ redirects = <<>>
        /\ \E r \in Requests :
              /\ req[r].releasedBy = c
              /\ req[r].st = "sent"
              /\ req[r].sentToken = Null

====
